---- MODULE Spec2Model ----
(***************************************************************************)
(* A model of rs-simple-logging: the Item/Severity data model, the writer  *)
(* combinators (severity gate, rate limiter), the resource proxy and the   *)
(* process-wide dispatch registry (_LOGGER) with its install and dispatch  *)
(* entry points.                                                           *)
(*                                                                         *)
(* Three specifications share the module:                                  *)
(*   Spec       the dispatch registry under concurrent threads             *)
(*   SpecWrite  one rate-limited writer under concurrent threads           *)
(*   SpecFn     the pure combinators applied to enumerated inputs          *)
(***************************************************************************)
EXTENDS Integers, Sequences, FiniteSets, TLC

VARIABLES
    slot,       \* _LOGGER's Option<&dyn Logger>: "None" or a logger
    holder,     \* the thread holding _LOGGER's mutex, or NoThread
    poisoned,   \* _LOGGER's mutex is poisoned
    pc,         \* each thread's position
    call,       \* each thread's call in progress
    obs,        \* each thread's observations of its call in progress
    settled,    \* the Logger of the last install call that returned with no
                \* other install call overlapping it, "Unknown" otherwise
    solo,       \* the thread's install call has not overlapped another one
    now,        \* the monotonic clock (Instant::now())
    min_duration, \* the rate limiter's minimum duration
    lstate,     \* the rate limiter's BTreeMap<Severity, Instant>
    wholder,    \* the thread holding LimitedWrite's state mutex, or NoThread
    wpoisoned,  \* LimitedWrite's state mutex is poisoned
    wpc,        \* each thread's position in LimitedWrite::write
    wcall,      \* each thread's write call in progress
    wobs,       \* each thread's observations of its write call
    lastCall,   \* per severity, the last write call that left the state mutex
    lastEmit,   \* per severity, the clock reading of the last delegated call
    fn          \* the last application of a pure combinator

regVars == <<slot, holder, poisoned, pc, call, obs, settled, solo>>

writeVars == <<now, min_duration, lstate, wholder, wpoisoned, wpc, wcall, wobs,
               lastCall, lastEmit>>

vars == <<regVars, writeVars, fn>>

(***************************************************************************)
(* Severity and Item (src/src/lib.rs)                                      *)
(***************************************************************************)
Severity == {"Trace", "Debug", "Info", "Warn", "Error", "Fatal"}

\* impl From<Severity> for u8, mutated: Debug is given a rank of Trace's range
SeverityToU8Low(s) ==
    CASE s = "Trace" -> 1
      [] s = "Debug" -> 4
      [] s = "Info"  -> 9
      [] s = "Warn"  -> 13
      [] s = "Error" -> 17
      [] s = "Fatal" -> 21

\* impl From<Severity> for u8
SeverityToU8(s) ==
    CASE s = "Trace" -> 1
      [] s = "Debug" -> 5
      [] s = "Info"  -> 9
      [] s = "Warn"  -> 13
      [] s = "Error" -> 17
      [] s = "Fatal" -> 21

\* Severity::as_str
as_str(s) ==
    CASE s = "Trace" -> "trace"
      [] s = "Debug" -> "debug"
      [] s = "Info"  -> "info"
      [] s = "Warn"  -> "warn"
      [] s = "Error" -> "error"
      [] s = "Fatal" -> "fatal"

\* BTreeMap::new()
EmptyMap == [k \in {} |-> ""]

\* Item::new: the timestamp is SystemTime::now() at construction, abstracted
\* to the place where the clock was read.
ItemNew(body, attr) ==
    [timestamp  |-> "construction",
     severity   |-> "Trace",
     body       |-> body,
     attributes |-> attr,
     resource   |-> EmptyMap,
     trace_id   |-> "None",
     span_id    |-> "None"]

\* Item::with_resource_keys
with_resource_keys(item, keys) ==
    [item EXCEPT !.resource = [k \in keys |-> ""]]

(***************************************************************************)
(* The LTSV serializer of the example (src/examples/ltsv/src/main.rs).     *)
(* A BTreeMap iterates in sorted key order: KeyOrder lists the keys of the *)
(* model in that order.                                                    *)
(***************************************************************************)
KeyOrder == <<"a", "b", "c", "k", "service.name">>

RECURSIVE ltsv_pairs(_, _, _)
ltsv_pairs(prefix, m, i) ==
    IF i > Len(KeyOrder) THEN ""
    ELSE (IF KeyOrder[i] \in DOMAIN m
            THEN "\t" \o prefix \o KeyOrder[i] \o ":" \o m[KeyOrder[i]]
            ELSE "")
         \o ltsv_pairs(prefix, m, i + 1)

ltsv_serializer(i) ==
    "level:" \o as_str(i.severity)
        \o ltsv_pairs("attr.", i.attributes, 1)
        \o ltsv_pairs("", i.resource, 1)
        \o "\tmsg:" \o i.body

(***************************************************************************)
(* The dispatch registry (src/src/copy.rs)                                 *)
(***************************************************************************)
Threads == {"t1", "t2"}
NoThread == "NoThread"

\* The Loggers an application installs; each is a WriteSerialized over the
\* LTSV serializer and a sink of its own.
Loggers == {"LA", "LB"}

\* The Items callers hand to the dispatch functions: one as Item::new and
\* with_resource_keys build it, one with every public field set by hand.
CallerItems ==
    { with_resource_keys(ItemNew("ready", EmptyMap), {"service.name"}),
      [timestamp  |-> "caller",
       severity   |-> "Fatal",
       body       |-> "oops",
       attributes |-> [k \in {"k"} |-> "v"],
       resource   |-> EmptyMap,
       trace_id   |-> "None",
       span_id    |-> "None"] }

NoItem == [body |-> "NoItem"]
NoWrite == [text |-> "NoWrite"]

NoCall == [kind |-> "none", fn |-> "none", arg |-> NoItem, item |-> NoItem,
           neo |-> "None"]

NoObs == [contended |-> FALSE,   \* lock() found the mutex held by another thread
          res       |-> "none",  \* how the call ended
          expected  |-> "Unknown", \* the settled Logger when the dispatch began
          logger    |-> "None",  \* the Logger the dispatch was forwarded to
          recv      |-> NoItem,  \* the Item that Logger received
          wr        |-> NoWrite, \* the writer invocation of that Logger
          nested    |-> "None"]  \* the Logger a nested install asked for

\* static _LOGGER: Mutex<Option<&dyn Logger>> = Mutex::new(None)
RegInit ==
    /\ slot = "None"
    /\ holder = NoThread
    /\ poisoned = FALSE
    /\ pc = [t \in Threads |-> "idle"]
    /\ call = [t \in Threads |-> NoCall]
    /\ obs = [t \in Threads |-> NoObs]
    /\ settled = "Unknown"
    /\ solo = [t \in Threads |-> FALSE]

\* fn _log: stamps the timestamp (SystemTime::now(), abstracted to the place
\* where the clock was read) and hands the Item to _LOGGER.log
_log(item) == [item EXCEPT !.timestamp = "dispatch"]

\* fn log_trace .. log_fatal, X the severity of the function called
log_severity_keep(X, item) == _log(item)
log_severity(X, item) == _log([item EXCEPT !.severity = X])

InSet(t) == pc[t] \in {"set_try", "set_locked"}

InLog(t) == pc[t] \in {"log_lock", "log_locked", "in_logger", "log_unlock"}

\* An install call begins: every dispatch in progress may meet either Logger,
\* and every install call in progress is overlapped.
InstallBegins(t) ==
    /\ settled' = "Unknown"
    /\ solo' = [u \in Threads |->
                 IF u = t THEN \A v \in Threads \ {t} : ~InSet(v) ELSE FALSE]

ForgetExpected(o) ==
    [u \in Threads |-> IF InLog(u) THEN [o[u] EXCEPT !.expected = "Unknown"]
                       ELSE o[u]]

\* A thread calls log_X(item).
CallLog(t, X, item) ==
    /\ pc[t] = "idle"
    /\ pc' = [pc EXCEPT ![t] = "log_lock"]
    /\ call' = [call EXCEPT ![t] = [kind |-> "log", fn |-> X, arg |-> item,
                                    item |-> log_severity(X, item),
                                    neo |-> "None"]]
    /\ obs' = [obs EXCEPT ![t] = [NoObs EXCEPT !.expected = settled]]
    /\ UNCHANGED <<slot, holder, poisoned, settled, solo>>
    /\ UNCHANGED <<writeVars, fn>>

\* Mutex::lock on a mutex another thread holds: the caller waits.
LogWait(t) ==
    /\ pc[t] = "log_lock"
    /\ holder \notin {NoThread, t}
    /\ ~obs[t].contended
    /\ obs' = [obs EXCEPT ![t].contended = TRUE]
    /\ UNCHANGED <<slot, holder, poisoned, pc, call, settled, solo>>
    /\ UNCHANGED <<writeVars, fn>>

\* impl Logger for Mutex<Option<&dyn Logger>>, mutated: try_lock() in place
\* of lock(), a held mutex is an Err like a poisoned one
MutexLogLockTry(t) ==
    /\ pc[t] = "log_lock"
    /\ IF holder # NoThread
         THEN /\ pc' = [pc EXCEPT ![t] = "ret"]
              /\ obs' = [obs EXCEPT ![t].res = "dropped_contended"]
              /\ UNCHANGED holder
         ELSE IF poisoned
         THEN /\ pc' = [pc EXCEPT ![t] = "ret"]
              /\ obs' = [obs EXCEPT ![t].res = "dropped_poisoned"]
              /\ UNCHANGED holder
         ELSE /\ holder' = t
              /\ pc' = [pc EXCEPT ![t] = "log_locked"]
              /\ UNCHANGED obs
    /\ UNCHANGED <<slot, poisoned, call, settled, solo>>
    /\ UNCHANGED <<writeVars, fn>>

\* impl Logger for Mutex<Option<&dyn Logger>>, mutated: lock().unwrap(), a
\* poisoned mutex makes the dispatch panic
MutexLogLockUnwrap(t) ==
    /\ pc[t] = "log_lock"
    /\ holder = NoThread
    /\ IF poisoned
         THEN /\ pc' = [pc EXCEPT ![t] = "panicked"]
              /\ obs' = [obs EXCEPT ![t].res = "panicked"]
              /\ UNCHANGED holder
         ELSE /\ holder' = t
              /\ pc' = [pc EXCEPT ![t] = "log_locked"]
              /\ UNCHANGED obs
    /\ UNCHANGED <<slot, poisoned, call, settled, solo>>
    /\ UNCHANGED <<writeVars, fn>>

\* impl Logger for Mutex<Option<&dyn Logger>>: self.lock()
\*   Err(_) => {}   a poisoned mutex: the guard inside the error is dropped
\*   Ok(g)  => ...
MutexLogLock(t) ==
    /\ pc[t] = "log_lock"
    /\ holder = NoThread
    /\ IF poisoned
         THEN /\ pc' = [pc EXCEPT ![t] = "ret"]
              /\ obs' = [obs EXCEPT ![t].res = "dropped_poisoned"]
              /\ UNCHANGED holder
         ELSE /\ holder' = t
              /\ pc' = [pc EXCEPT ![t] = "log_locked"]
              /\ UNCHANGED obs
    /\ UNCHANGED <<slot, poisoned, call, settled, solo>>
    /\ UNCHANGED <<writeVars, fn>>

\* The guard is dropped while the thread unwinds from a panic: the mutex is
\* released and poisoned.
Unwind(t) ==
    /\ holder' = NoThread
    /\ poisoned' = TRUE
    /\ pc' = [pc EXCEPT ![t] = "panicked"]

\* impl Logger for Option<&dyn Logger>, mutated: unwrap() panics on None
OptionLogUnwrap(t) ==
    /\ pc[t] = "log_locked"
    /\ IF slot = "None"
         THEN /\ Unwind(t)
              /\ obs' = [obs EXCEPT ![t].res = "panicked"]
         ELSE /\ pc' = [pc EXCEPT ![t] = "in_logger"]
              /\ obs' = [obs EXCEPT ![t].logger = slot,
                                    ![t].recv = call[t].item]
              /\ UNCHANGED <<holder, poisoned>>
    /\ UNCHANGED <<slot, call, settled, solo>>
    /\ UNCHANGED <<writeVars, fn>>

\* impl Logger for Mutex<Option<&dyn Logger>>, mutated: the Logger is moved
\* out of the slot with take() in place of as_deref()
OptionLogTake(t) ==
    /\ pc[t] = "log_locked"
    /\ IF slot = "None"
         THEN /\ pc' = [pc EXCEPT ![t] = "log_unlock"]
              /\ obs' = [obs EXCEPT ![t].res = "dropped_empty"]
         ELSE /\ pc' = [pc EXCEPT ![t] = "in_logger"]
              /\ obs' = [obs EXCEPT ![t].logger = slot,
                                    ![t].recv = call[t].item]
    /\ slot' = "None"
    /\ UNCHANGED <<holder, poisoned, call, settled, solo>>
    /\ UNCHANGED <<writeVars, fn>>

\* impl Logger for Mutex<Option<&dyn Logger>>, mutated: the pointer is copied
\* out and the guard dropped before the Logger is invoked
OptionLogUnguarded(t) ==
    /\ pc[t] = "log_locked"
    /\ IF slot = "None"
         THEN /\ pc' = [pc EXCEPT ![t] = "log_unlock"]
              /\ obs' = [obs EXCEPT ![t].res = "dropped_empty"]
              /\ UNCHANGED holder
         ELSE /\ pc' = [pc EXCEPT ![t] = "in_logger"]
              /\ obs' = [obs EXCEPT ![t].logger = slot,
                                    ![t].recv = call[t].item]
              /\ holder' = NoThread
    /\ UNCHANGED <<slot, poisoned, call, settled, solo>>
    /\ UNCHANGED <<writeVars, fn>>

\* impl Logger for Option<&dyn Logger>
\*   None    => {}
\*   Some(l) => l.log(item)
OptionLog(t) ==
    /\ pc[t] = "log_locked"
    /\ IF slot = "None"
         THEN /\ pc' = [pc EXCEPT ![t] = "log_unlock"]
              /\ obs' = [obs EXCEPT ![t].res = "dropped_empty"]
         ELSE /\ pc' = [pc EXCEPT ![t] = "in_logger"]
              /\ obs' = [obs EXCEPT ![t].logger = slot,
                                    ![t].recv = call[t].item]
    /\ UNCHANGED <<slot, holder, poisoned, call, settled, solo>>
    /\ UNCHANGED <<writeVars, fn>>

\* WriteSerialized::log: serialize the Item, write the text with the Item's
\* severity; the write lands in the sink of the Logger.
WriteSerializedLog(l, item) ==
    [logger |-> l, text |-> ltsv_serializer(item), level |-> item.severity]

\* The installed Logger's log returns after its write.
LoggerReturn(t) ==
    /\ pc[t] = "in_logger"
    /\ pc' = [pc EXCEPT ![t] = "log_unlock"]
    /\ obs' = [obs EXCEPT ![t].res = "delivered",
                          ![t].wr = WriteSerializedLog(obs[t].logger, obs[t].recv)]
    /\ UNCHANGED <<slot, holder, poisoned, call, settled, solo>>
    /\ UNCHANGED <<writeVars, fn>>

\* The installed Logger's log panics while the dispatch holds the guard.
LoggerPanic(t) ==
    /\ pc[t] = "in_logger"
    /\ Unwind(t)
    /\ obs' = [obs EXCEPT ![t].res = "panicked"]
    /\ UNCHANGED <<slot, call, settled, solo>>
    /\ UNCHANGED <<writeVars, fn>>

\* The installed Logger's log calls a dispatch function: Mutex::lock on a
\* mutex the calling thread holds. std leaves the outcome unspecified: the
\* call never returns, it deadlocks or it panics.
NestedLogDeadlock(t) ==
    /\ pc[t] = "in_logger"
    /\ pc' = [pc EXCEPT ![t] = "deadlocked"]
    /\ obs' = [obs EXCEPT ![t].res = "deadlocked"]
    /\ UNCHANGED <<slot, holder, poisoned, call, settled, solo>>
    /\ UNCHANGED <<writeVars, fn>>

NestedLogPanic(t) ==
    /\ pc[t] = "in_logger"
    /\ Unwind(t)
    /\ obs' = [obs EXCEPT ![t].res = "relock_panicked"]
    /\ UNCHANGED <<slot, call, settled, solo>>
    /\ UNCHANGED <<writeVars, fn>>

\* The installed Logger's log calls set(neo): try_lock on a mutex the calling
\* thread holds is Err(WouldBlock), and set returns without replacing.
NestedSet(t, neo) ==
    /\ pc[t] = "in_logger"
    /\ obs[t].nested = "None"
    /\ obs' = [ForgetExpected(obs) EXCEPT ![t].nested = neo]
    /\ settled' = IF \A v \in Threads \ {t} : ~InSet(v) THEN neo ELSE "Unknown"
    /\ solo' = [u \in Threads |-> FALSE]
    /\ UNCHANGED <<slot, holder, poisoned, pc, call>>
    /\ UNCHANGED <<writeVars, fn>>

\* The guard of the dispatch is dropped: the mutex is released.
LogUnlock(t) ==
    /\ pc[t] = "log_unlock"
    /\ holder' = NoThread
    /\ pc' = [pc EXCEPT ![t] = "ret"]
    /\ UNCHANGED <<slot, poisoned, call, obs, settled, solo>>
    /\ UNCHANGED <<writeVars, fn>>

\* A thread calls set(neo) (set_boxed leaks the box and calls set).
CallSet(t, neo) ==
    /\ pc[t] = "idle"
    /\ pc' = [pc EXCEPT ![t] = "set_try"]
    /\ call' = [call EXCEPT ![t] = [NoCall EXCEPT !.kind = "set", !.neo = neo]]
    /\ obs' = [ForgetExpected(obs) EXCEPT ![t] = NoObs]
    /\ InstallBegins(t)
    /\ UNCHANGED <<slot, holder, poisoned>>
    /\ UNCHANGED <<writeVars, fn>>

\* An install call returns.
InstallReturns(t) ==
    /\ settled' = IF solo[t] THEN call[t].neo ELSE "Unknown"
    /\ solo' = [solo EXCEPT ![t] = FALSE]

\* fn set: _LOGGER.try_lock()
\*   Err(_) => {}    the mutex is held (WouldBlock) or poisoned
\*   Ok(mut g) => ...
SetTryLock(t) ==
    /\ pc[t] = "set_try"
    /\ IF holder = NoThread /\ ~poisoned
         THEN /\ holder' = t
              /\ pc' = [pc EXCEPT ![t] = "set_locked"]
              /\ UNCHANGED <<obs, settled, solo>>
         ELSE /\ pc' = [pc EXCEPT ![t] = "ret"]
              /\ obs' = [obs EXCEPT ![t].res =
                            IF holder # NoThread THEN "set_contended"
                            ELSE "set_poisoned"]
              /\ InstallReturns(t)
              /\ UNCHANGED holder
    /\ UNCHANGED <<slot, poisoned, call>>
    /\ UNCHANGED <<writeVars, fn>>

\* fn set: mo.replace(neo), then the guard is dropped
SetReplace(t) ==
    /\ pc[t] = "set_locked"
    /\ slot' = call[t].neo
    /\ holder' = NoThread
    /\ pc' = [pc EXCEPT ![t] = "ret"]
    /\ obs' = [obs EXCEPT ![t].res = "set_ok"]
    /\ InstallReturns(t)
    /\ UNCHANGED <<poisoned, call>>
    /\ UNCHANGED <<writeVars, fn>>

\* The caller goes on after the call has returned.
Return(t) ==
    /\ pc[t] = "ret"
    /\ pc' = [pc EXCEPT ![t] = "idle"]
    /\ call' = [call EXCEPT ![t] = NoCall]
    /\ obs' = [obs EXCEPT ![t] = NoObs]
    /\ UNCHANGED <<slot, holder, poisoned, settled, solo>>
    /\ UNCHANGED <<writeVars, fn>>

RegNext ==
    \E t \in Threads :
        \/ \E X \in Severity, item \in CallerItems : CallLog(t, X, item)
        \/ LogWait(t)
        \/ MutexLogLock(t)
        \/ OptionLog(t)
        \/ LoggerReturn(t)
        \/ LoggerPanic(t)
        \/ NestedLogDeadlock(t)
        \/ NestedLogPanic(t)
        \/ \E neo \in Loggers : NestedSet(t, neo)
        \/ LogUnlock(t)
        \/ \E neo \in Loggers : CallSet(t, neo)
        \/ SetTryLock(t)
        \/ SetReplace(t)
        \/ Return(t)


(***************************************************************************)
(* The rate-limited writer: LimitedWrite (src/src/write.rs) over the state *)
(* closure rate_limiter (src/examples/ltsv/src/main.rs)                    *)
(***************************************************************************)
MaxTime == 4
MaxDuration == 2

\* The severities and texts the callers of the rate-limited writer use.
WriteLevels == {"Info", "Error"}
WriteTexts == {"m1"}

NoInstant == -1

NoWCall == [serialized |-> "none", level |-> "none"]

NoWObs == [res       |-> "none",   \* how the call ended
           checked   |-> NoInstant, \* the clock reading the decision was made on
           stamp     |-> NoInstant, \* the clock reading stored on permission
           delegated |-> FALSE,    \* the inner writer was invoked
           prev      |-> [delegated |-> FALSE, at |-> NoInstant]]
                                   \* the call at this severity before this one

\* limited_writer_new(original, rate_limiter(min_duration)): an empty map,
\* an unlocked mutex
WriteInit ==
    /\ now = 0
    /\ lstate = EmptyMap
    /\ wholder = NoThread
    /\ wpoisoned = FALSE
    /\ wpc = [t \in Threads |-> "idle"]
    /\ wcall = [t \in Threads |-> NoWCall]
    /\ wobs = [t \in Threads |-> NoWObs]
    /\ lastCall = [s \in Severity |-> [delegated |-> FALSE, at |-> NoInstant]]
    /\ lastEmit = [s \in Severity |-> NoInstant]

\* Instant::saturating_duration_since
saturating_duration_since(later, earlier) ==
    IF later >= earlier THEN later - earlier ELSE 0

\* rate_limiter, mutated: a call exactly min_duration after the last one passes
rate_limiter_available_inclusive(state, level, instant) ==
    IF level \in DOMAIN state
      THEN min_duration <= saturating_duration_since(instant, state[level])
      ELSE TRUE

\* rate_limiter: prev, duration and available
\*   duration.map(|d| min_duration < d).unwrap_or(true)
rate_limiter_available(state, level, instant) ==
    IF level \in DOMAIN state
      THEN min_duration < saturating_duration_since(instant, state[level])
      ELSE TRUE

\* rate_limiter, mutated: one instant is kept for all severities
rate_limiter_insert_shared(state, level, instant) ==
    [s \in Severity |-> instant]

\* rate_limiter: state.insert(level, Instant::now())
rate_limiter_insert(state, level, instant) ==
    [s \in DOMAIN state \cup {level} |-> IF s = level THEN instant ELSE state[s]]

\* The clock advances.
Tick ==
    /\ now < MaxTime
    /\ now' = now + 1
    /\ UNCHANGED <<min_duration, lstate, wholder, wpoisoned, wpc, wcall, wobs,
                   lastCall, lastEmit>>
    /\ UNCHANGED <<regVars, fn>>

\* A thread calls write(serialized, level) on the rate-limited writer.
WriteCall(t, serialized, level) ==
    /\ wpc[t] = "idle"
    /\ wpc' = [wpc EXCEPT ![t] = "w_lock"]
    /\ wcall' = [wcall EXCEPT ![t] = [serialized |-> serialized, level |-> level]]
    /\ wobs' = [wobs EXCEPT ![t] = NoWObs]
    /\ UNCHANGED <<now, min_duration, lstate, wholder, wpoisoned, lastCall,
                   lastEmit>>
    /\ UNCHANGED <<regVars, fn>>

\* LimitedWrite::write, mutated: the state is entered without the mutex
WriteEnterUnlocked(t) ==
    /\ wpc[t] = "w_lock"
    /\ wpc' = [wpc EXCEPT ![t] = "w_check"]
    /\ wholder' = t
    /\ UNCHANGED <<now, min_duration, lstate, wpoisoned, wcall, wobs, lastCall,
                   lastEmit>>
    /\ UNCHANGED <<regVars, fn>>

\* LimitedWrite::write: self.state.lock()
\*   Err(_) => {}   a poisoned mutex: the write is dropped
\*   Ok(mut guard) => ...
WriteLock(t) ==
    /\ wpc[t] = "w_lock"
    /\ wholder = NoThread
    /\ IF wpoisoned
         THEN /\ wpc' = [wpc EXCEPT ![t] = "ret"]
              /\ wobs' = [wobs EXCEPT ![t].res = "dropped_poisoned"]
              /\ UNCHANGED wholder
         ELSE /\ wholder' = t
              /\ wpc' = [wpc EXCEPT ![t] = "w_check"]
              /\ UNCHANGED wobs
    /\ UNCHANGED <<now, min_duration, lstate, wpoisoned, wcall, lastCall,
                   lastEmit>>
    /\ UNCHANGED <<regVars, fn>>

\* rate_limiter, mutated: a denied call stores the clock reading too
WriteCheckStamp(t) ==
    /\ wpc[t] = "w_check"
    /\ LET level == wcall[t].level
           available == rate_limiter_available(lstate, level, now)
       IN /\ wobs' = [wobs EXCEPT ![t].checked = now,
                                  ![t].prev = lastCall[level],
                                  ![t].res = IF available THEN "permitted"
                                             ELSE "denied"]
          /\ wpc' = [wpc EXCEPT ![t] = IF available THEN "w_insert"
                                       ELSE "w_unlock"]
          /\ lstate' = IF available THEN lstate
                       ELSE rate_limiter_insert(lstate, level, now)
    /\ UNCHANGED <<now, min_duration, wholder, wpoisoned, wcall,
                   lastCall, lastEmit>>
    /\ UNCHANGED <<regVars, fn>>

\* state(level), first half: the closure reads the clock and decides.
WriteCheck(t) ==
    /\ wpc[t] = "w_check"
    /\ LET level == wcall[t].level
           available == rate_limiter_available(lstate, level, now)
       IN /\ wobs' = [wobs EXCEPT ![t].checked = now,
                                  ![t].prev = lastCall[level],
                                  ![t].res = IF available THEN "permitted"
                                             ELSE "denied"]
          /\ wpc' = [wpc EXCEPT ![t] = IF available THEN "w_insert"
                                       ELSE "w_unlock"]
    /\ UNCHANGED <<now, min_duration, lstate, wholder, wpoisoned, wcall,
                   lastCall, lastEmit>>
    /\ UNCHANGED <<regVars, fn>>

\* state(level), second half: on permission the closure reads the clock again
\* and stores it for the severity.
WriteInsert(t) ==
    /\ wpc[t] = "w_insert"
    /\ lstate' = rate_limiter_insert(lstate, wcall[t].level, now)
    /\ wobs' = [wobs EXCEPT ![t].stamp = now]
    /\ wpc' = [wpc EXCEPT ![t] = "w_inner"]
    /\ UNCHANGED <<now, min_duration, wholder, wpoisoned, wcall, lastCall,
                   lastEmit>>
    /\ UNCHANGED <<regVars, fn>>

\* true => self.writer.write(serialized, level): the inner writer returns.
WriteInner(t) ==
    /\ wpc[t] = "w_inner"
    /\ wobs' = [wobs EXCEPT ![t].delegated = TRUE]
    /\ wpc' = [wpc EXCEPT ![t] = "w_unlock"]
    /\ UNCHANGED <<now, min_duration, lstate, wholder, wpoisoned, wcall,
                   lastCall, lastEmit>>
    /\ UNCHANGED <<regVars, fn>>

\* true => self.writer.write(serialized, level): the inner writer panics, the
\* guard is dropped while the thread unwinds and the mutex is poisoned.
WriteInnerPanic(t) ==
    /\ wpc[t] = "w_inner"
    /\ wobs' = [wobs EXCEPT ![t].delegated = TRUE, ![t].res = "panicked"]
    /\ wpc' = [wpc EXCEPT ![t] = "panicked"]
    /\ wholder' = NoThread
    /\ wpoisoned' = TRUE
    /\ lastCall' = [lastCall EXCEPT ![wcall[t].level] =
                        [delegated |-> TRUE, at |-> wobs[t].stamp]]
    /\ lastEmit' = [lastEmit EXCEPT ![wcall[t].level] = wobs[t].stamp]
    /\ UNCHANGED <<now, min_duration, lstate, wcall>>
    /\ UNCHANGED <<regVars, fn>>

\* The guard is dropped: the mutex is released and the call returns.
WriteUnlock(t) ==
    /\ wpc[t] = "w_unlock"
    /\ wholder' = NoThread
    /\ wpc' = [wpc EXCEPT ![t] = "ret"]
    /\ LET level == wcall[t].level
       IN /\ lastCall' = [lastCall EXCEPT ![level] =
                [delegated |-> wobs[t].delegated,
                 at |-> IF wobs[t].delegated THEN wobs[t].stamp
                        ELSE wobs[t].checked]]
          /\ lastEmit' = IF wobs[t].delegated
                           THEN [lastEmit EXCEPT ![level] = wobs[t].stamp]
                           ELSE lastEmit
    /\ UNCHANGED <<now, min_duration, lstate, wpoisoned, wcall, wobs>>
    /\ UNCHANGED <<regVars, fn>>

\* The caller goes on after write has returned.
WriteReturn(t) ==
    /\ wpc[t] = "ret"
    /\ wpc' = [wpc EXCEPT ![t] = "idle"]
    /\ wcall' = [wcall EXCEPT ![t] = NoWCall]
    /\ wobs' = [wobs EXCEPT ![t] = NoWObs]
    /\ UNCHANGED <<now, min_duration, lstate, wholder, wpoisoned, lastCall,
                   lastEmit>>
    /\ UNCHANGED <<regVars, fn>>

WriteNext ==
    \/ Tick
    \/ \E t \in Threads :
        \/ \E serialized \in WriteTexts, level \in WriteLevels :
              WriteCall(t, serialized, level)
        \/ WriteLock(t)
        \/ WriteCheck(t)
        \/ WriteInsert(t)
        \/ WriteInner(t)
        \/ WriteInnerPanic(t)
        \/ WriteUnlock(t)
        \/ WriteReturn(t)

(***************************************************************************)
(* The pure combinators: the severity-gated writer (src/src/write.rs) and  *)
(* the resource-substitution proxy (src/src/proxy/copy.rs)                 *)
(***************************************************************************)
\* level_checker_from_lower_bound, mutated: an exclusive lower bound
level_checker_exclusive(lb_inclusive, level) ==
    SeverityToU8(lb_inclusive) < SeverityToU8(level)

\* level_checker_from_lower_bound(lb_inclusive)(level): lbi <= u
level_checker_from_lower_bound(lb_inclusive, level) ==
    SeverityToU8(lb_inclusive) <= SeverityToU8(level)

\* FnWrite::write with check_level = level_checker_from_lower_bound(lb);
\* inner is the sequence of calls the internal writer has received.
\*   false => {}
\*   true  => (self.internal)(serialized, level)
FnWriteWrite(lb, inner, serialized, level) ==
    IF level_checker_from_lower_bound(lb, level)
      THEN Append(inner, [serialized |-> serialized, level |-> level])
      ELSE inner

\* The severities a lower-bound checker accepts: check_level as the set of
\* severities it returns true for.
LevelsFrom(lb_inclusive) ==
    {s \in Severity : level_checker_from_lower_bound(lb_inclusive, s)}

\* FnWrite::write for any check_level, given as the set `accept`
\*   false => {}
\*   true  => (self.internal)(serialized, level)
FnWrite_write(accept, inner, serialized, level) ==
    IF level \in accept
      THEN Append(inner, [serialized |-> serialized, level |-> level])
      ELSE inner

\* The two streams of the process, each the sequence of the chunks written.
EmptyOut == [stdout |-> <<>>, stderr |-> <<>>]

\* println!("{serialized}") / eprintln!("{serialized}")
println(out, serialized) ==
    [out EXCEPT !.stdout = Append(@, serialized \o "\n")]

eprintln(out, serialized) ==
    [out EXCEPT !.stderr = Append(@, serialized \o "\n")]

\* log_writer_new_std_default_from_fn's closure, mutated: Warn goes to
\* standard output
std_default_internal_warn_out(out, serialized, level) ==
    CASE level = "Trace" -> println(out, serialized)
      [] level = "Debug" -> println(out, serialized)
      [] level = "Info"  -> println(out, serialized)
      [] level = "Warn"  -> println(out, serialized)
      [] level = "Error" -> eprintln(out, serialized)
      [] level = "Fatal" -> eprintln(out, serialized)

\* log_writer_new_std_default_from_fn's closure: the match on level
std_default_internal(out, serialized, level) ==
    CASE level = "Trace" -> println(out, serialized)
      [] level = "Debug" -> println(out, serialized)
      [] level = "Info"  -> println(out, serialized)
      [] level = "Warn"  -> eprintln(out, serialized)
      [] level = "Error" -> eprintln(out, serialized)
      [] level = "Fatal" -> eprintln(out, serialized)

\* write(serialized, level) on log_writer_new_std_default_from_fn(check_level):
\* the FnWrite whose internal writer is the closure above
std_default_write(accept, out, serialized, level) ==
    LET calls == FnWrite_write(accept, <<>>, serialized, level)
    IN IF calls = <<>> THEN out
       ELSE std_default_internal(out, calls[1].serialized, calls[1].level)

\* write on log_writer_new_std_default_from_lower_bound(lb_inclusive)
std_default_write_from_lower_bound(lb_inclusive, out, serialized, level) ==
    std_default_write(LevelsFrom(lb_inclusive), out, serialized, level)

U8Max == 255

\* impl From<u8> for Severity, mutated: the catch-all arm is the lowest severity
U8ToSeverityDefaultTrace(num) ==
    CASE num \in 1..4   -> "Trace"
      [] num \in 5..8   -> "Debug"
      [] num \in 9..12  -> "Info"
      [] num \in 13..16 -> "Warn"
      [] num \in 17..20 -> "Error"
      [] num \in 21..24 -> "Fatal"
      [] OTHER          -> "Trace"

\* impl From<u8> for Severity
U8ToSeverity(num) ==
    CASE num \in 1..4   -> "Trace"
      [] num \in 5..8   -> "Debug"
      [] num \in 9..12  -> "Info"
      [] num \in 13..16 -> "Warn"
      [] num \in 17..20 -> "Error"
      [] num \in 21..24 -> "Fatal"
      [] OTHER          -> "Fatal"

\* ResourceProxyMap::get_resource is Some(lookup[name]) for a name the map
\* holds and None otherwise.
HasResource(lookup, name) == name \in DOMAIN lookup

\* proxy_new_from_resource_proxy, mutated: every pair of the lookup is
\* inserted into the Item's resource
RECURSIVE resource_insert_all(_, _, _)
resource_insert_all(lookup, resource, i) ==
    IF i > Len(KeyOrder) THEN resource
    ELSE LET key == KeyOrder[i]
         IN resource_insert_all(
                lookup,
                IF HasResource(lookup, key)
                  THEN [k \in DOMAIN resource \cup {key} |->
                           IF k = key THEN lookup[key] ELSE resource[k]]
                  ELSE resource,
                i + 1)

\* proxy_new_from_resource_proxy: the loop over original.resource.iter_mut(),
\* in key order from the i-th key on
\*   None    => {}
\*   Some(v) => *val = v.into()
RECURSIVE resource_fill(_, _, _)
resource_fill(lookup, resource, i) ==
    IF i > Len(KeyOrder) THEN resource
    ELSE LET key == KeyOrder[i]
         IN resource_fill(
                lookup,
                IF key \in DOMAIN resource /\ HasResource(lookup, key)
                  THEN [resource EXCEPT ![key] = lookup[key]]
                  ELSE resource,
                i + 1)

\* proxy_new_from_resource_proxy(resource_proxy).get_item(original)
resource_proxy_get_item(lookup, original) ==
    [original EXCEPT !.resource = resource_fill(lookup, original.resource, 1)]

FnKeys == {"a", "b", "c"}

Maps(keys, values) == UNION {[S -> values] : S \in SUBSET keys}

\* The Items handed to the proxy: every resource mapping over FnKeys with
\* empty placeholders or earlier values.
FnItems ==
    { [timestamp  |-> "dispatch",
       severity   |-> s,
       body       |-> "ready",
       attributes |-> [k \in {"k"} |-> "v"],
       resource   |-> r,
       trace_id   |-> "None",
       span_id    |-> "None"] :
      s \in {"Info", "Warn"}, r \in Maps(FnKeys, {"", "old"}) }

\* The lookups a resource proxy is built from.
FnLookups == Maps(FnKeys, {"X", "Y"})

\* The serialized texts handed to the severity-gated writer.
FnTexts == {"m1", "m2", ""}

\* The lookup of the end-to-end scenario: service.name is svc.
SvcLookup == [k \in {"service.name"} |-> "svc"]

\* logger_new(ltsv_serializer(), log_writer_new_std_default_from_lower_bound(lb))
\* .log(item): WriteSerialized::log over the console writer
direct_log(lb, out, item) ==
    LET w == WriteSerializedLog("direct", item)
    IN std_default_write_from_lower_bound(lb, out, w.text, w.level)

\* logger_new_from_proxy, mutated: the original Item is logged, not the
\* proxy's
proxied_log_original(lookup, lb, out, old) ==
    direct_log(lb, out, old)

\* logger_new_from_proxy(original, proxy).log(old), original the direct
\* logger above and proxy the resource proxy built from lookup
\*   let neo = proxy.get_item(old); original.log(neo)
proxied_log(lookup, lb, out, old) ==
    LET neo == resource_proxy_get_item(lookup, old)
    IN direct_log(lb, out, neo)

\* A proxy is the resource proxy of a lookup, a closure handed to
\* proxy_new_from_fn, or the join of two proxies.
ResourceProxyOf(lookup) == [kind |-> "resource", lookup |-> lookup]

FnProxy(name) == [kind |-> "fn", name |-> name]

\* proxy_join(p, q)
proxy_join(p, q) == [kind |-> "join", p |-> p, q |-> q]

\* The closures handed to proxy_new_from_fn: the identity, one declaring the
\* resource key "b", one marking the body.
ProxyFnApply(name, original) ==
    CASE name = "identity"  -> original
      [] name = "declare_b" ->
            [original EXCEPT !.resource =
                [k \in DOMAIN original.resource \cup {"b"} |-> 
                    IF k = "b" THEN "" ELSE original.resource[k]]]
      [] name = "mark_body" -> [original EXCEPT !.body = original.body \o "!"]

RECURSIVE get_item(_, _)

\* proxy_join's closure, mutated: q is applied first
join_get_item_q_first(p, q, original) ==
    LET after_q == get_item(q, original)
    IN get_item(p, after_q)

\* proxy_join's closure
\*   let after_p = p.get_item(original); q.get_item(after_p)
join_get_item(p, q, original) ==
    LET after_p == get_item(p, original)
    IN get_item(q, after_p)

\* Proxy::get_item
get_item(proxy, original) ==
    CASE proxy.kind = "resource" ->
            resource_proxy_get_item(proxy.lookup, original)
      [] proxy.kind = "fn" -> ProxyFnApply(proxy.name, original)
      [] proxy.kind = "join" -> join_get_item(proxy.p, proxy.q, original)

\* The proxies that are joined.
BaseProxies ==
    { FnProxy("identity"), FnProxy("declare_b"), FnProxy("mark_body"),
      ResourceProxyOf([k \in {"a"} |-> "X"]),
      ResourceProxyOf([k \in {"a", "b"} |-> "Y"]) }

NoFn == [op |-> "none"]

\* write(serialized, level) on a fresh severity-gated writer with lower
\* bound lb.
ApplyFnWrite(lb, serialized, level) ==
    /\ fn = NoFn
    /\ fn' = [op |-> "FnWrite", lb |-> lb, serialized |-> serialized,
              level |-> level,
              inner |-> FnWriteWrite(lb, <<>>, serialized, level)]
    /\ UNCHANGED <<regVars, writeVars>>

\* get_item(original) on the resource proxy built from lookup.
ApplyResourceProxy(lookup, original) ==
    /\ fn = NoFn
    /\ fn' = [op |-> "resource_proxy", lookup |-> lookup,
              original |-> original,
              out |-> resource_proxy_get_item(lookup, original)]
    /\ UNCHANGED <<regVars, writeVars>>

\* log_X(item) with the Logger of the end-to-end scenario installed: the
\* proxied logger over the direct logger with lower bound lb.
ApplyPipeline(lb, X, item) ==
    /\ fn = NoFn
    /\ fn' = [op |-> "pipeline", lb |-> lb, X |-> X, arg |-> item,
              out |-> proxied_log(SvcLookup, lb, EmptyOut,
                                  log_severity(X, item))]
    /\ UNCHANGED <<regVars, writeVars>>

\* get_item(original) on the two joins of p, q and r, and on p, q and r one
\* after the other.
ApplyJoin(p, q, r, original) ==
    /\ fn = NoFn
    /\ fn' = [op |-> "join", p |-> p, q |-> q, r |-> r,
              original |-> original,
              left  |-> get_item(proxy_join(proxy_join(p, q), r), original),
              right |-> get_item(proxy_join(p, proxy_join(q, r)), original),
              steps |-> get_item(r, get_item(q, get_item(p, original)))]
    /\ UNCHANGED <<regVars, writeVars>>

\* u8::from(s) and Severity::from of the result.
ApplySeverityToU8(s) ==
    /\ fn = NoFn
    /\ fn' = [op |-> "to_u8", s |-> s, rank |-> SeverityToU8(s),
              back |-> U8ToSeverity(SeverityToU8(s))]
    /\ UNCHANGED <<regVars, writeVars>>

\* Severity::from(num) for an 8-bit num.
ApplyU8ToSeverity(num) ==
    /\ fn = NoFn
    /\ fn' = [op |-> "from_u8", num |-> num, s |-> U8ToSeverity(num)]
    /\ UNCHANGED <<regVars, writeVars>>

\* write(serialized, level) on the default console writer built from the
\* check_level that accepts the severities of `accept`.
ApplyStdWrite(accept, serialized, level) ==
    /\ fn = NoFn
    /\ fn' = [op |-> "std_write", accept |-> accept,
              serialized |-> serialized, level |-> level,
              out |-> std_default_write(accept, EmptyOut, serialized, level)]
    /\ UNCHANGED <<regVars, writeVars>>

\* write(serialized, level) on
\* log_writer_new_std_default_from_lower_bound(lb).
ApplyStdWriteFromLowerBound(lb, serialized, level) ==
    /\ fn = NoFn
    /\ fn' = [op |-> "std_write_lb", accept |-> LevelsFrom(lb), lb |-> lb,
              serialized |-> serialized, level |-> level,
              out |-> std_default_write_from_lower_bound(
                          lb, EmptyOut, serialized, level)]
    /\ UNCHANGED <<regVars, writeVars>>

FnNext ==
    \/ \E lb \in Severity, X \in Severity, item \in CallerItems :
          ApplyPipeline(lb, X, item)
    \/ \E p \in BaseProxies, q \in BaseProxies, r \in BaseProxies,
          original \in FnItems :
          ApplyJoin(p, q, r, original)
    \/ \E s \in Severity : ApplySeverityToU8(s)
    \/ \E num \in 0..U8Max : ApplyU8ToSeverity(num)
    \/ \E accept \in SUBSET Severity, serialized \in FnTexts,
          level \in Severity :
          ApplyStdWrite(accept, serialized, level)
    \/ \E lb \in Severity, serialized \in FnTexts, level \in Severity :
          ApplyStdWriteFromLowerBound(lb, serialized, level)
    \/ \E lb \in Severity, serialized \in FnTexts, level \in Severity :
          ApplyFnWrite(lb, serialized, level)
    \/ \E lookup \in FnLookups, original \in FnItems :
          ApplyResourceProxy(lookup, original)

(***************************************************************************)
(* The specifications                                                      *)
(***************************************************************************)
(***************************************************************************)
(* A program whose threads use the dispatch functions and a rate-limited   *)
(* writer of their own: a thread is in one call at a time.                 *)
(***************************************************************************)
\* The Item, the Logger and the severity of the program.
LocksItem == with_resource_keys(ItemNew("ready", EmptyMap), {"service.name"})
LocksLogger == "LA"
LocksSeverity == "Info"

\* A thread that is not inside write calls log_X(item).
LocksCallLog(t, X) ==
    /\ wpc[t] = "idle"
    /\ CallLog(t, X, LocksItem)

\* A thread that is not inside write calls set(neo).
LocksCallSet(t) ==
    /\ wpc[t] = "idle"
    /\ CallSet(t, LocksLogger)

\* A thread that is in no dispatch and no install calls write.
LocksWriteCall(t, level) ==
    /\ pc[t] = "idle"
    /\ \E serialized \in WriteTexts : WriteCall(t, serialized, level)

LocksNext ==
    \/ Tick
    \/ \E t \in Threads :
        \/ LocksCallLog(t, LocksSeverity)
        \/ LogWait(t)
        \/ MutexLogLock(t)
        \/ OptionLog(t)
        \/ LoggerReturn(t)
        \/ LoggerPanic(t)
        \/ NestedLogDeadlock(t)
        \/ NestedLogPanic(t)
        \/ NestedSet(t, LocksLogger)
        \/ LogUnlock(t)
        \/ LocksCallSet(t)
        \/ SetTryLock(t)
        \/ SetReplace(t)
        \/ Return(t)
        \/ LocksWriteCall(t, LocksSeverity)
        \/ WriteLock(t)
        \/ WriteCheck(t)
        \/ WriteInsert(t)
        \/ WriteInner(t)
        \/ WriteInnerPanic(t)
        \/ WriteUnlock(t)
        \/ WriteReturn(t)

Init ==
    /\ RegInit
    /\ WriteInit
    /\ min_duration = 1
    /\ fn = NoFn

Next == RegNext

\* The dispatch registry under concurrent install and dispatch calls.
Spec == Init /\ [][Next]_vars

InitWrite ==
    /\ RegInit
    /\ WriteInit
    /\ min_duration \in 1..MaxDuration
    /\ fn = NoFn

\* One rate-limited writer under concurrent write calls.
SpecWrite == InitWrite /\ [][WriteNext]_vars

\* The pure combinators applied to every input of the bounded sets.
SpecFn == Init /\ [][FnNext]_vars

\* The program that uses the registry and a rate-limited writer.
SpecLocks == Init /\ [][LocksNext]_vars

(***************************************************************************)
(* Properties of the dispatch registry (Spec)                              *)
(***************************************************************************)
IsLogCall(t) == call[t].kind = "log"

\* C1: once an install call has returned (with no other install call
\* overlapping it or begun since), every dispatch begun after it is forwarded
\* to the Logger it installed: a dispatch that began while `expected` was the
\* settled Logger reaches that Logger and no other, and is not dropped on an
\* empty slot.
C1_InstallTakesEffect ==
    \A t \in Threads :
        ( /\ ~poisoned
          /\ pc[t] \in {"in_logger", "log_unlock"}
          /\ obs[t].expected \in Loggers )
        => obs[t].logger = obs[t].expected

\* C3 as stated: a dispatch that found the registry lock held by another
\* thread returns without having invoked a Logger.
C3_ContendedDispatchDrops ==
    \A t \in Threads :
        (pc[t] = "ret" /\ IsLogCall(t) /\ obs[t].contended)
        => (obs[t].logger = "None" /\ obs[t].wr = NoWrite)

\* C3 amended: a dispatch that found the registry lock held by another thread
\* is never dropped on that account. It has waited for the lock, and returns
\* in one of three ways: forwarded to the installed Logger, which wrote its
\* event; dropped because the slot was empty; dropped because the lock was
\* poisoned. None of them surfaces an error.
C3_ContendedDispatchWaits ==
    \A t \in Threads :
        (pc[t] = "ret" /\ IsLogCall(t) /\ obs[t].contended)
        => \/ /\ obs[t].res = "delivered"
              /\ obs[t].logger \in Loggers
              /\ obs[t].wr # NoWrite
              /\ obs[t].wr.logger = obs[t].logger
           \/ /\ obs[t].res = "dropped_empty"
              /\ obs[t].logger = "None"
           \/ /\ obs[t].res = "dropped_poisoned"
              /\ poisoned

\* A contended dispatch has returned after its event was written.
C3_Witness ==
    \E t \in Threads :
        /\ pc[t] = "ret" /\ IsLogCall(t) /\ obs[t].contended
        /\ obs[t].res = "delivered"

\* A call that can never return: it waits for a mutex its own thread holds,
\* it unwound from the panic of such a lock(), or it waits for a mutex whose
\* holder can never release it.
NeverReturns(t) ==
    \/ pc[t] = "deadlocked"
    \/ pc[t] = "panicked" /\ obs[t].res = "relock_panicked"
    \/ /\ pc[t] = "log_lock"
       /\ holder \in Threads
       /\ pc[holder] = "deadlocked"

\* C4: every dispatch call and every install call returns, also when the
\* installed Logger's log calls a dispatch function or install: no call is
\* ever in a state from which it cannot return.
C4_EveryCallReturns == \A t \in Threads : ~NeverReturns(t)

C7_EmptyInv ==
    slot = "None" =>
        /\ ~poisoned
        /\ \A t \in Threads :
            /\ pc[t] \notin {"in_logger", "deadlocked", "panicked"}
            /\ obs[t].logger = "None"
            /\ obs[t].wr = NoWrite
            /\ (IsLogCall(t) /\ pc[t] \in {"log_unlock", "ret"})
                   => obs[t].res = "dropped_empty"
            /\ (pc[t] = "log_lock" /\ holder # NoThread)
                   => /\ holder # t
                      /\ pc[holder] \in {"log_locked", "log_unlock", "set_locked"}

C7_EmptyStep ==
    (slot = "None" /\ \E t \in Threads : InLog(t) /\ pc'[t] # pc[t])
        => slot' = "None"

\* C7: while no Logger has been installed (the slot is empty), every dispatch
\* is a silent no-op: no thread panics or deadlocks, the lock is never
\* poisoned, a waiting dispatch waits only for a holder that is about to
\* release, no Logger and no writer is invoked, every dispatch that returns
\* has dropped its event, and no step of a dispatch fills the slot.
C7_EmptyRegistryNoOp == []C7_EmptyInv /\ [][C7_EmptyStep]_vars

\* A dispatch has returned from an empty registry, for an Item whose severity
\* the dispatch function overwrote.
C7_Witness ==
    /\ slot = "None"
    /\ \E t \in Threads :
        /\ pc[t] = "ret" /\ IsLogCall(t)
        /\ obs[t].res = "dropped_empty"
        /\ call[t].arg.severity # call[t].fn

C8_Step ==
    /\ slot # "None" => slot' # "None"
    /\ slot' # slot =>
          \E t \in Threads :
              /\ pc[t] = "set_locked" /\ pc'[t] = "ret"
              /\ call[t].kind = "set"
              /\ slot' = call[t].neo

\* C8: the registry starts Empty, is always Empty or Installed(Logger), never
\* goes from Installed back to Empty, and only an install call changes the
\* slot, to the Logger it was given.
C8_RegistryStates ==
    /\ slot = "None"
    /\ [](slot \in Loggers \cup {"None"})
    /\ [][C8_Step]_vars

\* A dispatch was forwarded to one Logger and the registry now holds another:
\* an Installed -> Installed replacement after a dispatch.
C8_Witness ==
    \E t \in Threads :
        /\ pc[t] = "ret" /\ obs[t].res = "delivered"
        /\ slot \in Loggers /\ slot # obs[t].logger

\* C10: the Logger a dispatch through log_X is forwarded to receives severity
\* X, with the caller's body, attributes and resource, and its writer is
\* called with severity X.
C10_SeverityOverwritten ==
    \A t \in Threads :
        (IsLogCall(t) /\ obs[t].logger \in Loggers)
        => /\ obs[t].recv.severity = call[t].fn
           /\ obs[t].recv.body = call[t].arg.body
           /\ obs[t].recv.attributes = call[t].arg.attributes
           /\ obs[t].recv.resource = call[t].arg.resource
           /\ obs[t].wr # NoWrite =>
                 /\ obs[t].wr.level = call[t].fn
                 /\ obs[t].wr.logger = obs[t].logger
           /\ obs[t].res = "delivered" => obs[t].wr # NoWrite

\* The writer was called for an Item that the caller handed over with another
\* severity than the function's.
C10_Witness ==
    \E t \in Threads :
        /\ IsLogCall(t) /\ obs[t].res = "delivered"
        /\ call[t].arg.severity = "Fatal" /\ call[t].fn = "Debug"
        /\ obs[t].wr.level = "Debug"

(***************************************************************************)
(* Properties of the rate-limited writer (SpecWrite)                       *)
(***************************************************************************)
\* A write call has returned after the rate limiter decided on it, and the
\* call at its severity before it was delegated.
SecondOfTwo(t) ==
    /\ wpc[t] = "ret"
    /\ wobs[t].res \in {"permitted", "denied"}
    /\ wobs[t].prev.delegated

\* The time from the first call's emission (the instant it stored) to the
\* second call's reading of the clock.
Gap(t) == wobs[t].checked - wobs[t].prev.at

\* C2 as stated: of two consecutive write calls at one severity, the first
\* delegated, the second is dropped when it comes less than min_duration
\* after the first and delegated when it comes min_duration or more after it.
C2_AtLeastDuration ==
    \A t \in Threads :
        SecondOfTwo(t) =>
            /\ Gap(t) < min_duration => ~wobs[t].delegated
            /\ Gap(t) >= min_duration => wobs[t].delegated

\* C2 amended: the second is dropped when it comes min_duration or less
\* after the first, and delegated when it comes more than min_duration after
\* it.
C2_MoreThanDuration ==
    \A t \in Threads :
        SecondOfTwo(t) =>
            /\ Gap(t) <= min_duration => ~wobs[t].delegated
            /\ Gap(t) > min_duration => wobs[t].delegated

\* A second call came exactly min_duration after the first, which was
\* delegated, and was dropped.
C2_Witness ==
    \E t \in Threads :
        /\ SecondOfTwo(t)
        /\ Gap(t) = min_duration
        /\ ~wobs[t].delegated

InState(t) == wpc[t] \in {"w_check", "w_insert", "w_inner", "w_unlock"}

\* C5: at most one thread at a time is between the lock and the unlock of the
\* per-severity state, and a call that is permitted read the clock more than
\* min_duration after the last delegated call of its severity.
C5_AtomicAndRateBounded ==
    /\ Cardinality({t \in Threads : InState(t)}) <= 1
    /\ \A t \in Threads :
        ( /\ InState(t)
          /\ wobs[t].res = "permitted"
          /\ lastEmit[wcall[t].level] # NoInstant )
        => wobs[t].checked - lastEmit[wcall[t].level] > min_duration

\* A second call of a severity is being delegated while another thread waits
\* for the state lock.
C5_Witness ==
    \E t, u \in Threads :
        /\ wpc[t] = "w_inner"
        /\ lastEmit[wcall[t].level] # NoInstant
        /\ wpc[u] = "w_lock"
        /\ wcall[u].level = wcall[t].level

(***************************************************************************)
(* Properties of the pure combinators (SpecFn)                             *)
(***************************************************************************)
\* The order of the Severity enumeration: Trace < Debug < ... < Fatal.
SeverityOrder == <<"Trace", "Debug", "Info", "Warn", "Error", "Fatal">>

Ordinal(s) == CHOOSE i \in 1..Len(SeverityOrder) : SeverityOrder[i] = s

\* C6: write(t, s) on the severity-gated writer with lower bound B never
\* invokes the inner writer when s is below B, and invokes it exactly once,
\* with the same t and s, when s is B or above.
C6_SeverityGate ==
    fn.op = "FnWrite" =>
        IF Ordinal(fn.level) < Ordinal(fn.lb)
          THEN fn.inner = <<>>
          ELSE fn.inner = <<[serialized |-> fn.serialized, level |-> fn.level]>>

\* A write at exactly the lower bound Info reached the inner writer once.
C6_Witness ==
    /\ fn.op = "FnWrite"
    /\ fn.level = fn.lb
    /\ fn.lb = "Info"
    /\ Len(fn.inner) = 1

\* C9: the resource proxy's output has the input's resource keys, each with
\* the lookup's value when the lookup defines the key and the input's value
\* otherwise; body, attributes and severity are the input's.
C9_ResourceProxyFrame ==
    fn.op = "resource_proxy" =>
        /\ DOMAIN fn.out.resource = DOMAIN fn.original.resource
        /\ \A k \in DOMAIN fn.original.resource :
              fn.out.resource[k] =
                  IF k \in DOMAIN fn.lookup THEN fn.lookup[k]
                  ELSE fn.original.resource[k]
        /\ fn.out.body = fn.original.body
        /\ fn.out.attributes = fn.original.attributes
        /\ fn.out.severity = fn.original.severity

\* The scenario of the spec: resource {a: "", b: ""}, a lookup defining a
\* and c; a is filled, b is kept, c is not added.
C9_Witness ==
    /\ fn.op = "resource_proxy"
    /\ fn.original.resource = [k \in {"a", "b"} |-> ""]
    /\ fn.lookup = [k \in {"a", "c"} |-> "X"]
    /\ fn.out.resource = [k \in {"a", "b"} |-> IF k = "a" THEN "X" ELSE ""]

(***************************************************************************)
(* C11: with the Logger Proxied(resource proxy for service.name = svc)     *)
(* over Direct(LTSV serializer, console writer with lower bound Info)      *)
(* installed, an Info dispatch of the Item with body "ready" and declared  *)
(* resource key service.name puts exactly the one line                     *)
(* level:info<TAB>service.name:svc<TAB>msg:ready on standard output and    *)
(* nothing on standard error, and a Debug dispatch of the same Item        *)
(* outputs nothing.                                                        *)
(***************************************************************************)
ReadyItem == with_resource_keys(ItemNew("ready", EmptyMap), {"service.name"})

C11_PipelineOrder ==
    (fn.op = "pipeline" /\ fn.lb = "Info" /\ fn.arg = ReadyItem) =>
        /\ fn.X = "Info" =>
              fn.out = [stdout |-> <<"level:info\tservice.name:svc\tmsg:ready\n">>,
                        stderr |-> <<>>]
        /\ fn.X = "Debug" => fn.out = [stdout |-> <<>>, stderr |-> <<>>]

\* The Info dispatch of the scenario has happened and wrote one line.
C11_Witness ==
    /\ fn.op = "pipeline" /\ fn.lb = "Info" /\ fn.arg = ReadyItem
    /\ fn.X = "Info"
    /\ Len(fn.out.stdout) = 1

(***************************************************************************)
(* C13: proxy_join(proxy_join(P, Q), R) and proxy_join(P, proxy_join(Q, R))*)
(* give the same Item for every input, and that Item is the one obtained   *)
(* by applying P first, then Q, then R.                                    *)
(***************************************************************************)
C13_JoinAssociative ==
    fn.op = "join" =>
        /\ fn.left = fn.right
        /\ fn.left = fn.steps

\* Three proxies were joined for which the order of application matters.
C13_Witness ==
    /\ fn.op = "join"
    /\ fn.steps /= get_item(fn.p, get_item(fn.q, get_item(fn.r, fn.original)))
    /\ fn.steps /= fn.original

(***************************************************************************)
(* C15: the ranks of Trace, Debug, Info, Warn, Error, Fatal are 1, 5, 9,   *)
(* 13, 17, 21, strictly increasing in that order, and converting a         *)
(* Severity to its rank and back gives the Severity again.                 *)
(***************************************************************************)
Ranks == <<1, 5, 9, 13, 17, 21>>

C15_RanksRoundTrip ==
    fn.op = "to_u8" =>
        /\ fn.rank = Ranks[Ordinal(fn.s)]
        /\ \A lower \in Severity :
              Ordinal(lower) < Ordinal(fn.s) => SeverityToU8(lower) < fn.rank
        /\ fn.back = fn.s

\* A severity above the lowest was converted and came back.
C15_Witness ==
    /\ fn.op = "to_u8"
    /\ fn.s = "Debug"
    /\ fn.back = "Debug"

(***************************************************************************)
(* C16: for every 8-bit r, Severity::from(r) is Trace for 1..4, Debug for  *)
(* 5..8, Info for 9..12, Warn for 13..16, Error for 17..20 and Fatal for   *)
(* every r of 21 or more; the remaining r, which is 0, gives Fatal too.    *)
(***************************************************************************)
C16_FromU8Total ==
    fn.op = "from_u8" =>
        /\ (1 <= fn.num /\ fn.num <= 4)   => fn.s = "Trace"
        /\ (5 <= fn.num /\ fn.num <= 8)   => fn.s = "Debug"
        /\ (9 <= fn.num /\ fn.num <= 12)  => fn.s = "Info"
        /\ (13 <= fn.num /\ fn.num <= 16) => fn.s = "Warn"
        /\ (17 <= fn.num /\ fn.num <= 20) => fn.s = "Error"
        /\ fn.num >= 21 => fn.s = "Fatal"
        /\ fn.num = 0 => fn.s = "Fatal"
        /\ fn.s \in Severity

\* A rank outside every named sub-range was converted.
C16_Witness ==
    /\ fn.op = "from_u8"
    /\ fn.num = 0
    /\ fn.s = "Fatal"

(***************************************************************************)
(* C17: a write on the default console writer whose severity passes the    *)
(* gate emits exactly one line, the serialized text followed by a newline, *)
(* to standard output for Trace, Debug, Info and to standard error for     *)
(* Warn, Error, Fatal, and nothing to the other stream; a write whose      *)
(* severity fails the gate emits nothing to either.                        *)
(***************************************************************************)
C17_Passes ==
    IF fn.op = "std_write_lb"
      THEN Ordinal(fn.lb) <= Ordinal(fn.level)
      ELSE fn.level \in fn.accept

C17_ConsoleRouting ==
    fn.op \in {"std_write", "std_write_lb"} =>
        LET line == <<fn.serialized \o "\n">>
        IN /\ (C17_Passes /\ fn.level \in {"Trace", "Debug", "Info"}) =>
                  (fn.out.stdout = line /\ fn.out.stderr = <<>>)
           /\ (C17_Passes /\ fn.level \in {"Warn", "Error", "Fatal"}) =>
                  (fn.out.stderr = line /\ fn.out.stdout = <<>>)
           /\ ~C17_Passes =>
                  (fn.out.stdout = <<>> /\ fn.out.stderr = <<>>)

\* A Warn write passed the lower bound and reached standard error.
C17_Witness ==
    /\ fn.op = "std_write_lb"
    /\ fn.level = "Warn"
    /\ fn.lb = "Info"
    /\ Len(fn.out.stderr) = 1

(***************************************************************************)
(* C12: once the registry lock is poisoned it stays poisoned and free, no  *)
(* thread is past the lock of a dispatch or an install, and from then on   *)
(* every step leaves the slot unchanged, no thread starts to panic, a      *)
(* dispatch that leaves the lock returns without a Logger having been      *)
(* invoked, and an install that leaves the lock returns without replacing. *)
(***************************************************************************)
C12_PoisonedInv ==
    poisoned =>
        /\ holder = NoThread
        /\ \A t \in Threads :
              pc[t] \notin {"log_locked", "in_logger", "log_unlock",
                            "set_locked", "deadlocked"}

C12_PoisonedStep ==
    poisoned =>
        /\ poisoned'
        /\ slot' = slot
        /\ \A t \in Threads :
              /\ pc'[t] = "panicked" => pc[t] = "panicked"
              /\ pc[t] = "log_lock" =>
                    \/ pc'[t] = "log_lock"
                    \/ /\ pc'[t] = "ret"
                       /\ obs'[t].res = "dropped_poisoned"
                       /\ obs'[t].logger = "None"
                       /\ obs'[t].wr = NoWrite
              /\ pc[t] = "set_try" =>
                    \/ pc'[t] = "set_try"
                    \/ /\ pc'[t] = "ret"
                       /\ obs'[t].res = "set_poisoned"

C12_PoisonedNoOp == []C12_PoisonedInv /\ [][C12_PoisonedStep]_vars

\* A Logger is installed, the lock is poisoned, and a later dispatch has
\* returned without reaching the Logger.
C12_Witness ==
    /\ poisoned
    /\ slot \in Loggers
    /\ \E t \in Threads :
          /\ pc[t] = "ret"
          /\ call[t].kind = "log"
          /\ obs[t].res = "dropped_poisoned"

(***************************************************************************)
(* C14: the cooldowns are per severity. A write at severity s that reached *)
(* the rate limiter is permitted exactly when no write at s was delegated  *)
(* before or the last one delegated at s was stamped more than             *)
(* min_duration before the clock reading of the decision; what was called, *)
(* permitted or denied at other severities has no part in it.              *)
(***************************************************************************)
Decided(t) ==
    /\ wpc[t] \in {"w_insert", "w_inner", "w_unlock"}
    /\ wobs[t].res \in {"permitted", "denied"}

CoolingDown(s, instant) ==
    /\ lastEmit[s] # NoInstant
    /\ instant - lastEmit[s] <= min_duration

C14_PerSeverityCooldown ==
    \A t \in Threads :
        Decided(t) =>
            (wobs[t].res = "permitted"
                <=> ~CoolingDown(wcall[t].level, wobs[t].checked))

\* A write was permitted while another severity was cooling down.
C14_Witness ==
    \E t \in Threads :
        /\ Decided(t)
        /\ wobs[t].res = "permitted"
        /\ \E s \in Severity \ {wcall[t].level} :
              CoolingDown(s, wobs[t].checked)

(***************************************************************************)
(* C19: the stored instants change only when a permitted call stores the   *)
(* clock reading for its own severity, which it has done when the inner    *)
(* writer is invoked; a denied call changes nothing. So a call that        *)
(* reaches the rate limiter more than min_duration after the last          *)
(* delegated call at its severity is permitted and delegated, however many *)
(* calls were denied in between.                                           *)
(***************************************************************************)
Stored(state, s) == IF s \in DOMAIN state THEN state[s] ELSE NoInstant

C19_StateStep ==
    lstate' # lstate =>
        \E t \in Threads :
            /\ wobs[t].res = "permitted"
            /\ wpc[t] = "w_insert"
            /\ wpc'[t] = "w_inner"
            /\ ~wobs[t].delegated
            /\ \A s \in Severity :
                  Stored(lstate', s) =
                      IF s = wcall[t].level THEN now ELSE Stored(lstate, s)

C19_StateInv ==
    \A t \in Threads :
        /\ wpc[t] = "w_inner" =>
              /\ wobs[t].res = "permitted"
              /\ Stored(lstate, wcall[t].level) = wobs[t].stamp
        /\ wobs[t].delegated => wobs[t].res \in {"permitted", "panicked"}
        /\ (Decided(t) /\ ~CoolingDown(wcall[t].level, wobs[t].checked)) =>
              /\ wobs[t].res = "permitted"
              /\ wpc[t] = "w_unlock" => wobs[t].delegated

C19_DeniedKeepsState == []C19_StateInv /\ [][C19_StateStep]_vars

\* A call was delegated whose predecessor at the same severity was denied
\* during the cooldown of an earlier delegated call.
C19_Witness ==
    \E t \in Threads :
        /\ wpc[t] = "w_unlock"
        /\ wobs[t].delegated
        /\ ~wobs[t].prev.delegated
        /\ wobs[t].prev.at # NoInstant
        /\ CoolingDown(wcall[t].level, wobs[t].prev.at)

(***************************************************************************)
(* C18: under any interleaving at most one thread is inside the installed  *)
(* Logger's log on behalf of a dispatch, and that thread holds the         *)
(* registry lock; at most one thread is inside the inner writer of the     *)
(* rate-limited writer, and that thread holds the writer's lock.           *)
(***************************************************************************)
InLogger == {t \in Threads : pc[t] \in {"in_logger", "deadlocked"}}

InInnerWriter == {t \in Threads : wpc[t] = "w_inner"}

C18_OneAtATime ==
    /\ Cardinality(InLogger) <= 1
    /\ \A t \in InLogger : holder = t
    /\ Cardinality(InInnerWriter) <= 1
    /\ \A t \in InInnerWriter : wholder = t

\* One thread is inside the Logger while the other waits for the registry
\* lock with a dispatch of its own.
C18_Witness ==
    \E t \in Threads, u \in Threads :
        /\ t # u
        /\ pc[t] = "in_logger"
        /\ pc[u] = "log_lock"
        /\ obs[u].contended

====
